---- MODULE Spec2Model ----
(***************************************************************************)
(* Model of analyze_program (app/ui_cnc_analyzer.py), the CNC program      *)
(* analyzer: a forward pass over the program's lines that folds modal      *)
(* state and position, whole-program checks, the unknown-code pass and the *)
(* report.                                                                 *)
(*                                                                         *)
(* Text is modelled as TLA+ strings, read character by character with      *)
(* SubSeq; the regular expressions of the source are operators over those  *)
(* strings.  Python floats are modelled as fixed-point numbers counted in  *)
(* hundredths, with the special values Inf, NegInf and NaN and a scaled-   *)
(* down largest finite value FloatMax.                                     *)
(***************************************************************************)
EXTENDS Integers, Sequences, FiniteSets, TLC

(***************************************************************************)
(* Bounds of the model.                                                    *)
(***************************************************************************)
\* longest program of the general specifications
MaxLines == 3
\* longest run of alternating Z moves that opens a program of the retract specification
MaxRetractLines == 11
\* longest tail that follows the run
MaxTailLines == 2
\* longest program of the re-invocation specification
MaxTwiceLines == 2
\* longest program of the Z specification
MaxZLines == 5
\* longest program of the floating-point specification
MaxFloatLines == 2
\* number of invocations of analyze_program in the re-invocation specification
MaxCalls == 3
\* longest program of the report specification
MaxReportLines == 3
\* longest run of G1 lines of the efficiency specification
MaxSpamLines == 41
\* longest program of the comment-line specification
MaxCommentLines == 3
\* longest program of an invocation of the concurrent specification
MaxConcurrentLines == 2
\* longest program of the modal-code specification
MaxModalLines == 4
\* longest program of the feed-mode specification
MaxFeedLines == 4
\* longest program of the short-move specification
MaxTinyLines == 4
\* longest program of the cut-distance specification
MaxCutLines == 3
\* longest line-number list of the round-trip specification
MaxListLen == 3
\* the line numbers 1..MaxLineNumber are in the lists of the round-trip specification
MaxLineNumber == 10
\* largest finite float, in hundredths (stands for sys.float_info.max)
FloatMax == 6760000

(***************************************************************************)
(* Characters and strings.                                                 *)
(***************************************************************************)
Digit == {"0", "1", "2", "3", "4", "5", "6", "7", "8", "9"}

UpperLetters == <<"A", "B", "C", "D", "E", "F", "G", "H", "I", "J", "K", "L", "M",
                  "N", "O", "P", "Q", "R", "S", "T", "U", "V", "W", "X", "Y", "Z">>

LowerLetters == <<"a", "b", "c", "d", "e", "f", "g", "h", "i", "j", "k", "l", "m",
                  "n", "o", "p", "q", "r", "s", "t", "u", "v", "w", "x", "y", "z">>

\* the characters the regular expression class \w accepts
WordChar == Digit \cup {UpperLetters[i] : i \in 1..26} \cup {LowerLetters[i] : i \in 1..26} \cup {"_"}

\* the character of s at position i, "" outside the string
Char(s, i) == IF i >= 1 /\ i <= Len(s) THEN SubSeq(s, i, i) ELSE ""

\* str.upper() on one character
UpperChar(c) ==
    IF c \in {LowerLetters[i] : i \in 1..26}
    THEN UpperLetters[CHOOSE i \in 1..26 : LowerLetters[i] = c]
    ELSE c

RECURSIVE UpperFrom(_, _)
\* s with the characters from position i on in upper case
UpperFrom(s, i) ==
    IF i > Len(s) THEN s
    ELSE IF UpperChar(Char(s, i)) = Char(s, i) THEN UpperFrom(s, i + 1)
    ELSE UpperFrom(SubSeq(s, 1, i - 1) \o UpperChar(Char(s, i)) \o SubSeq(s, i + 1, Len(s)), i + 1)

\* str.upper()
Upper(s) == UpperFrom(s, 1)

\* the substring test `w in s`
Contains(s, w) == \E i \in 1..Len(s) : i + Len(w) - 1 <= Len(s) /\ SubSeq(s, i, i + Len(w) - 1) = w

\* the regular expression assertion \b between positions p and p+1 of s
Boundary(s, p) == (Char(s, p) \in WordChar) # (Char(s, p + 1) \in WordChar)

RECURSIVE DigitsEnd(_, _)
\* the last position of the longest run of digits that starts at position i (i-1 when there is none)
DigitsEnd(s, i) == IF Char(s, i) \in Digit THEN DigitsEnd(s, i + 1) ELSE i - 1

\* the literal w matched at position i between two \b assertions
WordAt(s, i, w) ==
    /\ i + Len(w) - 1 <= Len(s)
    /\ SubSeq(s, i, i + Len(w) - 1) = w
    /\ Boundary(s, i - 1)
    /\ Boundary(s, i + Len(w) - 1)

\* re.search of \b<w>\b
HasWord(s, w) == \E i \in 1..Len(s) : WordAt(s, i, w)

\* the end of a match of \b[<letters>]\d+\b that starts at position i, 0 when there is none
TokenEnd(s, i, letters) ==
    LET j == DigitsEnd(s, i + 1)
    IN IF /\ Char(s, i) \in letters
          /\ Boundary(s, i - 1)
          /\ j >= i + 1
          /\ Boundary(s, j)
       THEN j ELSE 0

RECURSIVE FindAllFrom(_, _, _)
FindAllFrom(s, i, letters) ==
    IF i > Len(s) THEN << >>
    ELSE LET j == TokenEnd(s, i, letters)
         IN IF j > 0 THEN <<SubSeq(s, i, j)>> \o FindAllFrom(s, j + 1, letters)
            ELSE FindAllFrom(s, i + 1, letters)

\* re.findall(r"\b([GM]\d+)\b", line)
FindCodes(s) == FindAllFrom(s, 1, {"G", "M"})

(***************************************************************************)
(* Floats: finite values are integers counting hundredths, in              *)
(* -FloatMax..FloatMax; Inf, NegInf and NaN are the IEEE special values.   *)
(***************************************************************************)
Inf == FloatMax + 1
NegInf == 0 - Inf
NaN == FloatMax + 2
\* Python's None where a float is expected (last_z)
None == FloatMax + 3

IsFinite(a) == a >= 0 - FloatMax /\ a <= FloatMax

Abs(a) == IF a < 0 THEN 0 - a ELSE a

\* a finite result, or the infinity it overflows to
Saturate(v) == IF v > FloatMax THEN Inf ELSE IF v < 0 - FloatMax THEN NegInf ELSE v

\* float addition a + b
FAdd(a, b) ==
    IF a = NaN \/ b = NaN THEN NaN
    ELSE IF (a = Inf /\ b = NegInf) \/ (a = NegInf /\ b = Inf) THEN NaN
    ELSE IF a = Inf \/ b = Inf THEN Inf
    ELSE IF a = NegInf \/ b = NegInf THEN NegInf
    ELSE Saturate(a + b)

\* float negation
FNeg(a) == IF a = NaN THEN NaN ELSE 0 - a

\* float subtraction a - b
FSub(a, b) == FAdd(a, FNeg(b))

\* float comparisons: every comparison with NaN is false
FLt(a, b) == a # NaN /\ b # NaN /\ a < b
FGt(a, b) == a # NaN /\ b # NaN /\ a > b
FGe(a, b) == a # NaN /\ b # NaN /\ a >= b

RECURSIVE ISqrtBetween(_, _, _)
\* the largest r in lo..hi with r * r <= n (lo * lo <= n)
ISqrtBetween(n, lo, hi) ==
    IF lo >= hi THEN lo
    ELSE LET mid == (lo + hi + 1) \div 2
         IN IF mid * mid <= n THEN ISqrtBetween(n, mid, hi) ELSE ISqrtBetween(n, lo, mid - 1)

\* the square root of n, rounded down (n >= 0)
ISqrt(n) == ISqrtBetween(n, 0, 46340)

\* the largest finite square, in squared hundredths
SquareMax == 100 * FloatMax

\* x ** 2 raises OverflowError for a finite x whose square is not finite
SquareOverflows(a) == IsFinite(a) /\ Abs(a) > ISqrt(SquareMax)

\* sum(values): a left fold of float additions that starts from 0
RECURSIVE FSum(_)
FSum(xs) == IF Len(xs) = 0 THEN 0 ELSE FAdd(FSum(SubSeq(xs, 1, Len(xs) - 1)), xs[Len(xs)])

\* a / n for an integer n > 0, rounded to hundredths toward minus infinity
FDiv(a, n) == IF IsFinite(a) THEN a \div n ELSE a

(***************************************************************************)
(* Token extraction of one (upper-cased) line.                             *)
(***************************************************************************)
RECURSIVE FirstToken(_, _, _)
\* the start of the leftmost match of \b[<letters>]\d+\b at or after position i, 0 when there is none
FirstToken(s, i, letters) ==
    IF i > Len(s) THEN 0
    ELSE IF TokenEnd(s, i, letters) > 0 THEN i
    ELSE FirstToken(s, i + 1, letters)

\* re.search(r"\bT(\d+)\b", line): group(1) of the leftmost match, "" for no match
ToolMatch(line) ==
    LET i == FirstToken(line, 1, {"T"})
    IN IF i > 0 THEN SubSeq(line, i + 1, TokenEnd(line, i, {"T"})) ELSE ""

\* the texts \bG0?([0123])\b matches
ModalWords == {"G0", "G1", "G2", "G3", "G00", "G01", "G02", "G03"}

ModalAt(line, i) == Char(line, i) = "G" /\ \E w \in ModalWords : WordAt(line, i, w)

RECURSIVE FirstModal(_, _)
\* the start of the leftmost match of \bG0?([0123])\b at or after position i, 0 when there is none
FirstModal(line, i) ==
    IF i > Len(line) THEN 0
    ELSE IF ModalAt(line, i) THEN i
    ELSE FirstModal(line, i + 1)

\* re.search(r"\bG0?([0123])\b", line): group(0) of the leftmost match, "" for no match
ModalMatch(line) ==
    LET i == FirstModal(line, 1)
    IN IF i > 0 THEN CHOOSE w \in ModalWords : WordAt(line, i, w) ELSE ""

\* the end of a match of [+-]?\d+(\.\d+)? that starts at position p, 0 when there is none
NumberEnd(s, p) ==
    LET q == IF Char(s, p) \in {"+", "-"} THEN p + 1 ELSE p
        j == DigitsEnd(s, q)
        f == DigitsEnd(s, j + 2)
    IN IF j < q THEN 0
       ELSE IF Char(s, j + 1) = "." /\ f >= j + 2 THEN f ELSE j

DigitVal(c) == CHOOSE d \in 0..9 : ToString(d) = c

RECURSIVE ParseDigits(_)
\* the value of a run of digits, in hundredths, Inf once it exceeds FloatMax
ParseDigits(ds) ==
    IF Len(ds) = 0 THEN 0
    ELSE LET hi == ParseDigits(SubSeq(ds, 1, Len(ds) - 1))
         IN IF hi = Inf THEN Inf ELSE Saturate(hi * 10 + DigitVal(Char(ds, Len(ds))) * 100)

\* float(text) for a text matched by [+-]?\d+(\.\d+)?; fraction digits after the second are dropped
ParseFloat(text) ==
    LET neg == Char(text, 1) = "-"
        q == IF Char(text, 1) \in {"+", "-"} THEN 2 ELSE 1
        j == DigitsEnd(text, q)
        whole == ParseDigits(SubSeq(text, q, j))
        frac == IF j < Len(text)
                THEN DigitVal(Char(text, j + 2)) * 10
                     + (IF j + 3 <= Len(text) THEN DigitVal(Char(text, j + 3)) ELSE 0)
                ELSE 0
        mag == IF whole = Inf THEN Inf ELSE Saturate(whole + frac)
    IN IF neg THEN 0 - mag ELSE mag

CoordAt(line, i, axis) == Char(line, i) = axis /\ NumberEnd(line, i + 1) > 0

RECURSIVE FirstCoord(_, _, _)
\* the start of the leftmost match of {axis}([+-]?\d+(\.\d+)?) at or after position i, 0 when there is none
FirstCoord(line, i, axis) ==
    IF i > Len(line) THEN 0
    ELSE IF CoordAt(line, i, axis) THEN i
    ELSE FirstCoord(line, i + 1, axis)

\* re.search(rf"{axis}([+-]?\d+(\.\d+)?)", line) finds a match
HasCoord(line, axis) == FirstCoord(line, 1, axis) > 0

\* float(match.group(1)) of the leftmost match
CoordValue(line, axis) ==
    LET i == FirstCoord(line, 1, axis)
    IN ParseFloat(SubSeq(line, i + 1, NumberEnd(line, i + 1)))

Axes == {"X", "Y", "Z"}

\* the dict coords of one line: the axes that carry a number, with their values
Coords(line) == [a \in {b \in Axes : HasCoord(line, b)} |-> CoordValue(line, a)]

(***************************************************************************)
(* Python dicts keep insertion order: a dict is a sequence of <<key, value>>*)
(* pairs with distinct keys.                                               *)
(***************************************************************************)
DictHas(d, k) == \E i \in 1..Len(d) : d[i][1] = k

\* d.get(k, default)
DictGet(d, k, default) ==
    IF DictHas(d, k) THEN d[CHOOSE i \in 1..Len(d) : d[i][1] = k][2] ELSE default

\* d[k] = v
DictPut(d, k, v) ==
    IF DictHas(d, k)
    THEN [i \in 1..Len(d) |-> IF d[i][1] = k THEN <<k, v>> ELSE d[i]]
    ELSE Append(d, <<k, v>>)

\* list(d.values())
DictValues(d) == [i \in 1..Len(d) |-> d[i][2]]

(***************************************************************************)
(* The dataclass Finding; impact_seconds is a float (hundredths).          *)
(***************************************************************************)
Finding(severity, rule_id, line_numbers, message, impact_seconds) ==
    [severity |-> severity, rule_id |-> rule_id, line_numbers |-> line_numbers,
     message |-> message, impact_seconds |-> impact_seconds]

(***************************************************************************)
(* The statements of the forward pass, one operator each.                  *)
(***************************************************************************)
\* lines 575-578
UnitsAfter(line, u) ==
    IF Contains(line, "G21") THEN "mm"
    ELSE IF Contains(line, "G20") THEN "inch"
    ELSE u

\* lines 579-582
FeedModeAfter(line, fm) ==
    IF Contains(line, "G94") THEN "G94"
    ELSE IF Contains(line, "G95") THEN "G95"
    ELSE fm

\* the condition of line 584
SpindleStart(line) ==
    HasWord(line, "M3") \/ HasWord(line, "M03") \/ HasWord(line, "M4") \/ HasWord(line, "M04")

\* the condition of line 587
SpindleStop(line) == HasWord(line, "M5") \/ HasWord(line, "M05")

\* SpindleAfter with the stop codes ignored
SpindleAfterNoStop(line, on) == IF SpindleStart(line) THEN TRUE ELSE on

\* lines 584-588
SpindleAfter(line, on) ==
    IF SpindleStop(line) THEN FALSE
    ELSE IF SpindleStart(line) THEN TRUE
    ELSE on

\* lines 597-600
CannedAfter(line, active) ==
    IF (\E d \in Digit : HasWord(line, "G8" \o d)) /\ ~Contains(line, "G80") THEN TRUE
    ELSE IF Contains(line, "G80") THEN FALSE
    ELSE active

\* CuttingModals with the rapid codes counted as cutting
CuttingModalsWithRapid == {"G0", "G00", "G1", "G01", "G2", "G02", "G3", "G03"}

\* the group(0) values line 630 takes for a cutting move
CuttingModals == {"G1", "G01", "G2", "G02", "G3", "G03"}

\* Target that starts from the origin: an axis the line does not carry is 0
TargetFromOrigin(pos, coords) == [a \in Axes |-> IF a \in DOMAIN coords THEN coords[a] ELSE 0]

\* lines 616-617: position.copy() updated with coords
Target(pos, coords) == [a \in Axes |-> IF a \in DOMAIN coords THEN coords[a] ELSE pos[a]]

\* line 618 raises OverflowError: one of the three squares is not finite
DistRaises(pos, target) == \E a \in Axes : SquareOverflows(FSub(target[a], pos[a]))

\* line 618: the Euclidean distance (no square overflows)
Dist(pos, target) ==
    LET d == [a \in Axes |-> FSub(target[a], pos[a])]
        sumsq == d["X"] * d["X"] + d["Y"] * d["Y"] + d["Z"] * d["Z"]
    IN IF \E a \in Axes : d[a] = NaN THEN NaN
       ELSE IF \E a \in Axes : ~IsFinite(d[a]) THEN Inf
       ELSE IF sumsq > SquareMax THEN Inf
       ELSE ISqrt(sumsq)

\* InUnits without the conversion to millimeters
InUnitsNoConversion(dist, u) == dist

\* lines 619-620: dist *= 25.4 in inch mode
InUnits(dist, u) ==
    IF u = "inch"
    THEN (IF IsFinite(dist) THEN Saturate((dist * 254) \div 10) ELSE dist)
    ELSE dist

\* RetractAfter that counts the rising Z moves only
RetractAfterRisesOnly(retract, lz, coords) ==
    IF lz # None /\ "Z" \in DOMAIN coords
    THEN (IF FGt(coords["Z"], lz) THEN retract + 50 ELSE retract)
    ELSE retract

\* RetractAfter with the Z before the first Z-bearing line taken as 0, the
\* start position, so that the first Z-bearing line counts too
RetractAfterFromStart(retract, lz, coords) ==
    IF "Z" \in DOMAIN coords
    THEN (IF coords["Z"] # (IF lz = None THEN 0 ELSE lz) THEN retract + 50 ELSE retract)
    ELSE retract

\* lines 623-627
RetractAfter(retract, lz, coords) ==
    IF lz # None /\ "Z" \in DOMAIN coords
    THEN (IF FGt(coords["Z"], lz) \/ FLt(coords["Z"], lz) THEN retract + 50 ELSE retract)
    ELSE retract

\* line 628
LastZAfter(lz, coords) == IF "Z" \in DOMAIN coords THEN coords["Z"] ELSE lz

VARIABLES lines, pc, idx, exception, result, calls, first_lines, first_result,
          units, feed_mode, current_tool, spindle_on, last_modal,
          tool_calls, tool_sections, moves, cut_time, findings,
          g_codes_seen, m_codes_seen, canned_active, last_spindle_line,
          retract_cycles, last_z, unsupported_codes, feed_mode_flagged,
          position, move_lengths,
          line_numbers, joined, parsed, ui_pc,
          running, frames, solo_of

\* the local variables of analyze_program
locals == <<units, feed_mode, current_tool, spindle_on, last_modal,
            tool_calls, tool_sections, moves, cut_time, findings,
            g_codes_seen, m_codes_seen, canned_active, last_spindle_line,
            retract_cycles, last_z, unsupported_codes, feed_mode_flagged,
            position, move_lengths>>

\* the state of the invocation that is running
frame == <<lines, pc, idx, exception, result, locals>>

\* the line-number list of a finding on its way through storage, in the user interface
ui == <<line_numbers, joined, parsed, ui_pc>>

\* the invocations that run side by side
threads == <<running, frames, solo_of>>

vars == <<lines, pc, idx, exception, result, calls, first_lines, first_result, locals, ui, threads>>

\* no report yet
NoResult == [efficiency_score |-> 0, cycle_time_seconds |-> 0, findings |-> << >>,
             tools |-> << >>, breakdown |-> << >>, returned |-> FALSE]

\* lines 544-564: the locals of a fresh invocation
InitLocals ==
    /\ units = "mm"
    /\ feed_mode = "G94"
    /\ current_tool = ""
    /\ spindle_on = FALSE
    /\ last_modal = ""
    /\ tool_calls = << >>
    /\ tool_sections = << >>
    /\ moves = << >>
    /\ cut_time = << >>
    /\ findings = << >>
    /\ g_codes_seen = {}
    /\ m_codes_seen = {}
    /\ canned_active = FALSE
    /\ last_spindle_line = 0
    /\ retract_cycles = 0
    /\ last_z = None
    /\ unsupported_codes = {}
    /\ feed_mode_flagged = FALSE
    /\ position = [a \in Axes |-> 0]
    /\ move_lengths = << >>

\* all programs of at most n lines drawn from the set v
Programs(v, n) == UNION {[1..k -> v] : k \in 0..n}

\* nothing is stored or loaded
InitUi ==
    /\ line_numbers = << >>
    /\ joined = ""
    /\ parsed = << >>
    /\ ui_pc = "idle"

\* one invocation, nothing suspended
InitThreads ==
    /\ running = 1
    /\ frames = << >>
    /\ solo_of = 0

\* analyze_program is called with one of the programs of ps
InitCall(ps) ==
    /\ lines \in ps
    /\ pc = "forward"
    /\ idx = 0
    /\ exception = ""
    /\ result = NoResult
    /\ calls = 1
    /\ first_lines = lines
    /\ first_result = NoResult
    /\ InitLocals

\* one invocation of analyze_program, with nothing else going on
InitWith(ps) ==
    /\ InitUi
    /\ InitThreads
    /\ InitCall(ps)

(***************************************************************************)
(* The findings of the forward pass.                                       *)
(***************************************************************************)
\* ModalSpam that compares the numbers of the codes, so that G01 repeats G1
ModalSpamSameNumber(n, modal, last) ==
    IF modal # "" /\ last # "" /\ Char(modal, Len(modal)) = Char(last, Len(last))
    THEN <<Finding("INFO", "MODAL_SPAM", <<n>>, "Redundant modal " \o modal \o " repeated.", 0)>>
    ELSE << >>

\* lines 605-606
ModalSpam(n, modal, last) ==
    IF modal # "" /\ modal = last
    THEN <<Finding("INFO", "MODAL_SPAM", <<n>>, "Redundant modal " \o modal \o " repeated.", 0)>>
    ELSE << >>

\* SpindleMissing evaluated on the spindle state the line before left, as if
\* the move came before the spindle codes of its line
SpindleMissingBeforeFold(n, modal, on) ==
    IF modal \in CuttingModals /\ ~spindle_on
    THEN <<Finding("CRITICAL", "SPINDLE_MISSING", <<n>>, "Cutting move without spindle start.", 0)>>
    ELSE << >>

\* lines 630-632
SpindleMissing(n, modal, on) ==
    IF modal \in CuttingModals /\ ~on
    THEN <<Finding("CRITICAL", "SPINDLE_MISSING", <<n>>, "Cutting move without spindle start.", 0)>>
    ELSE << >>

\* FeedUnsupported without the latch: one finding per line that ends in G95
FeedUnsupportedNoLatch(n, fm, flagged) ==
    IF fm = "G95"
    THEN <<Finding("INFO", "FEED_UNSUPPORTED", <<n>>, "G95 feed mode detected.", 0)>>
    ELSE << >>

\* lines 636-637
FeedUnsupported(n, fm, flagged) ==
    IF fm = "G95" /\ ~flagged
    THEN <<Finding("INFO", "FEED_UNSUPPORTED", <<n>>, "G95 feed mode detected.", 0)>>
    ELSE << >>

\* lines 566-638: one iteration of the forward loop, on line idx + 1
ForwardStep ==
    /\ pc = "forward"
    /\ idx < Len(lines)
    /\ \E line \in {Upper(lines[idx + 1])} :
       LET n == idx + 1
           codes == FindCodes(line)
           units1 == UnitsAfter(line, units)
           feed1 == FeedModeAfter(line, feed_mode)
           spindle1 == SpindleAfter(line, spindle_on)
           tool == ToolMatch(line)
           tool1 == IF tool # "" THEN tool ELSE current_tool
           modal == ModalMatch(line)
           coords == Coords(line)
           target == Target(position, coords)
           dist == InUnits(Dist(position, target), units1)
           spam == ModalSpam(n, modal, last_modal)
       IN /\ idx' = n
          /\ g_codes_seen' = g_codes_seen \cup {codes[i] : i \in {k \in 1..Len(codes) : Char(codes[k], 1) = "G"}}
          /\ m_codes_seen' = m_codes_seen \cup {codes[i] : i \in {k \in 1..Len(codes) : Char(codes[k], 1) = "M"}}
          /\ units' = units1
          /\ feed_mode' = feed1
          /\ spindle_on' = spindle1
          /\ last_spindle_line' = IF SpindleStart(line) THEN n ELSE last_spindle_line
          /\ current_tool' = tool1
          /\ tool_calls' = IF tool # "" THEN DictPut(tool_calls, tool, DictGet(tool_calls, tool, 0) + 1)
                           ELSE tool_calls
          /\ tool_sections' = IF tool # ""
                              THEN DictPut(tool_sections, tool, Append(DictGet(tool_sections, tool, << >>), n))
                              ELSE tool_sections
          /\ canned_active' = CannedAfter(line, canned_active)
          /\ last_modal' = IF modal # "" THEN modal ELSE last_modal
          /\ IF DOMAIN coords # {} /\ DistRaises(position, target)
             THEN \* line 618 raises: the exception leaves analyze_program
                  /\ pc' = "error"
                  /\ exception' = "OverflowError"
                  /\ findings' = findings \o spam
                  /\ UNCHANGED <<moves, move_lengths, retract_cycles, last_z, position,
                                 cut_time, feed_mode_flagged>>
             ELSE /\ pc' = "forward"
                  /\ exception' = exception
                  /\ IF DOMAIN coords # {}
                     THEN /\ move_lengths' = Append(move_lengths, dist)
                          /\ moves' = Append(moves, <<n, dist, line>>)
                          /\ retract_cycles' = RetractAfter(retract_cycles, last_z, coords)
                          /\ last_z' = LastZAfter(last_z, coords)
                          /\ position' = target
                          /\ cut_time' = IF modal \in CuttingModals /\ tool1 # ""
                                         THEN DictPut(cut_time, tool1, FAdd(DictGet(cut_time, tool1, 0), dist))
                                         ELSE cut_time
                          /\ findings' = findings \o spam \o SpindleMissing(n, modal, spindle1)
                                                  \o FeedUnsupported(n, feed1, feed_mode_flagged)
                     ELSE /\ UNCHANGED <<moves, move_lengths, retract_cycles, last_z, position, cut_time>>
                          /\ findings' = findings \o spam \o FeedUnsupported(n, feed1, feed_mode_flagged)
                  /\ feed_mode_flagged' = (feed_mode_flagged \/ feed1 = "G95")
    /\ UNCHANGED <<lines, result, calls, first_lines, first_result, unsupported_codes, ui, threads>>

(***************************************************************************)
(* The whole-program checks that follow the forward loop.                  *)
(***************************************************************************)
\* lines 640-641
CannedMissing(active) ==
    IF active
    THEN <<Finding("CRITICAL", "CANNED_MISSING_G80", << >>, "Canned cycle used without G80 cancel.", 0)>>
    ELSE << >>

\* ExcessRetracts with a strict threshold
ExcessRetractsStrict(retract) ==
    IF retract > 600
    THEN <<Finding("WARN", "EXCESS_RETRACTS", << >>, "Excessive retract cycles detected.", 0)>>
    ELSE << >>

\* lines 642-643
ExcessRetracts(retract) ==
    IF retract >= 600
    THEN <<Finding("WARN", "EXCESS_RETRACTS", << >>, "Excessive retract cycles detected.", 0)>>
    ELSE << >>

RECURSIVE ToolRecallEveryTool(_)
\* ToolRecall with every selected tool reported, recalled or not
ToolRecallEveryTool(sections) ==
    IF Len(sections) = 0 THEN << >>
    ELSE LET last == sections[Len(sections)]
         IN ToolRecallEveryTool(SubSeq(sections, 1, Len(sections) - 1))
            \o <<Finding("WARN", "TOOL_RECALL", last[2],
                         "Tool " \o last[1] \o " recalled in multiple sections.", 0)>>

RECURSIVE ToolRecall(_)
\* lines 645-647
ToolRecall(sections) ==
    IF Len(sections) = 0 THEN << >>
    ELSE LET last == sections[Len(sections)]
         IN ToolRecall(SubSeq(sections, 1, Len(sections) - 1))
            \o (IF Len(last[2]) > 1
                THEN <<Finding("WARN", "TOOL_RECALL", last[2],
                               "Tool " \o last[1] \o " recalled in multiple sections.", 0)>>
                ELSE << >>)

\* TinySegments with a mean of 0.5 counted as small
TinySegmentsInclusive(lengths) ==
    IF Len(lengths) > 0 /\ ~FGt(FDiv(FSum(lengths), Len(lengths)), 50)
    THEN <<Finding("WARN", "TINY_SEGMENTS", << >>, "Average move length is very small.", 0)>>
    ELSE << >>

\* lines 649-652
TinySegments(lengths) ==
    IF Len(lengths) > 0 /\ FLt(FDiv(FSum(lengths), Len(lengths)), 50)
    THEN <<Finding("WARN", "TINY_SEGMENTS", << >>, "Average move length is very small.", 0)>>
    ELSE << >>

RECURSIVE AirCut(_)
\* lines 654-656
AirCut(ms) ==
    IF Len(ms) = 0 THEN << >>
    ELSE LET last == ms[Len(ms)]
         IN AirCut(SubSeq(ms, 1, Len(ms) - 1))
            \o (IF FGt(last[2], 20000) /\ Contains(last[3], "G1")
                THEN <<Finding("INFO", "AIR_CUT", <<last[1]>>,
                               "Long cutting feed move may be air-cutting.", 100)>>
                ELSE << >>)

\* lines 640-656, entered when the forward loop is exhausted
PostPass ==
    /\ pc = "forward"
    /\ idx = Len(lines)
    /\ findings' = findings \o CannedMissing(canned_active) \o ExcessRetracts(retract_cycles)
                            \o ToolRecall(tool_sections) \o TinySegments(move_lengths) \o AirCut(moves)
    /\ pc' = "unknown"
    /\ idx' = 0
    /\ UNCHANGED <<lines, exception, result, calls, first_lines, first_result,
                   units, feed_mode, current_tool, spindle_on, last_modal,
                   tool_calls, tool_sections, moves, cut_time,
                   g_codes_seen, m_codes_seen, canned_active, last_spindle_line,
                   retract_cycles, last_z, unsupported_codes, feed_mode_flagged,
                   position, move_lengths, ui, threads>>

(***************************************************************************)
(* The unknown-code pass.                                                  *)
(***************************************************************************)
\* lines 658-663
supported_codes ==
    {"G0", "G00", "G1", "G01", "G2", "G02", "G3", "G03",
     "G20", "G21", "G80", "G81", "G82", "G83", "G84", "G85", "G86", "G87", "G88", "G89",
     "G90", "G91", "G94", "G95",
     "M3", "M03", "M4", "M04", "M5", "M05", "M6", "M06", "M30"}

\* IsNewUnknown without the check of the codes already reported
IsNewUnknownNoDedup(code, seen) == code \notin supported_codes

\* line 666
IsNewUnknown(code, seen) == code \notin supported_codes /\ code \notin seen

RECURSIVE UnknownCodes(_, _, _)
\* lines 665-670: the inner loop over the codes of line n; the new findings and the updated set
UnknownCodes(codes, n, seen) ==
    IF Len(codes) = 0 THEN [findings |-> << >>, seen |-> seen]
    ELSE LET before == UnknownCodes(SubSeq(codes, 1, Len(codes) - 1), n, seen)
             code == codes[Len(codes)]
         IN IF IsNewUnknown(code, before.seen)
            THEN [findings |-> Append(before.findings,
                                      Finding("INFO", "UNKNOWN_CODE", <<n>>,
                                              "Unknown/Unhandled code encountered: " \o code \o ".", 0)),
                  seen |-> before.seen \cup {code}]
            ELSE before

\* lines 664-670: one iteration of the second loop, on line idx + 1
UnknownStep ==
    /\ pc = "unknown"
    /\ idx < Len(lines)
    /\ \E codes \in {FindCodes(Upper(lines[idx + 1]))} :
       LET n == idx + 1
           found == UnknownCodes(codes, n, unsupported_codes)
       IN /\ idx' = n
          /\ findings' = findings \o found.findings
          /\ unsupported_codes' = found.seen
    /\ UNCHANGED <<lines, pc, exception, result, calls, first_lines, first_result,
                   units, feed_mode, current_tool, spindle_on, last_modal,
                   tool_calls, tool_sections, moves, cut_time,
                   g_codes_seen, m_codes_seen, canned_active, last_spindle_line,
                   retract_cycles, last_z, feed_mode_flagged, position, move_lengths,
                   ui, threads>>

(***************************************************************************)
(* The report.                                                             *)
(***************************************************************************)
\* ToolSummary built from the tools that cut instead of the tools that were selected
ToolSummaryOfCutTime(tc, ct) ==
    [i \in 1..Len(ct) |-> <<ct[i][1], [calls |-> DictGet(tc, ct[i][1], 0), cut_time |-> ct[i][2]]>>]

\* lines 672-674
ToolSummary(tc, ct) ==
    [i \in 1..Len(tc) |-> <<tc[i][1], [calls |-> tc[i][2], cut_time |-> DictGet(ct, tc[i][1], 0)]>>]

\* CycleTime without the division by the throughput constant
CycleTimeNoDivision(ct) == IF Len(ct) > 0 THEN FSum(DictValues(ct)) ELSE 0

\* line 676
CycleTime(ct) == IF Len(ct) > 0 THEN FDiv(FSum(DictValues(ct)), 10) ELSE 0

Max(a, b) == IF a >= b THEN a ELSE b

\* Efficiency with the findings counted one too many
EfficiencyOffByOne(fs, fm) ==
    LET base == Max(0, 10000 - (Len(fs) + 1) * 250)
    IN IF fm = "G95" THEN Max(0, base - 1000) ELSE base

\* Efficiency with the deduction made when G95 was ever reported, whatever the final feed mode
EfficiencyEverG95(fs, fm) ==
    LET base == Max(0, 10000 - Len(fs) * 250)
    IN IF \E i \in 1..Len(fs) : fs[i].rule_id = "FEED_UNSUPPORTED" THEN Max(0, base - 1000) ELSE base

\* Efficiency without the deduction for a final G95
EfficiencyNoFeedPenalty(fs, fm) == Max(0, 10000 - Len(fs) * 250)

\* lines 677-679
Efficiency(fs, fm) ==
    LET base == Max(0, 10000 - Len(fs) * 250)
    IN IF fm = "G95" THEN Max(0, base - 1000) ELSE base

\* Breakdown with the cut distance reported as the move distance too
BreakdownMoveIsCut(ct, lengths) ==
    [cut_distance_mm |-> FSum(DictValues(ct)),
     move_distance_mm |-> FSum(DictValues(ct)),
     avg_move_mm |-> IF Len(lengths) > 0 THEN FDiv(FSum(lengths), Len(lengths)) ELSE 0]

\* lines 686-690
Breakdown(ct, lengths) ==
    [cut_distance_mm |-> FSum(DictValues(ct)),
     move_distance_mm |-> FSum(lengths),
     avg_move_mm |-> IF Len(lengths) > 0 THEN FDiv(FSum(lengths), Len(lengths)) ELSE 0]

\* the findings with the most severe first
SortBySeverity(fs) ==
    SelectSeq(fs, LAMBDA f : f.severity = "CRITICAL")
        \o SelectSeq(fs, LAMBDA f : f.severity = "WARN")
        \o SelectSeq(fs, LAMBDA f : f.severity = "INFO")

\* BuildReport with the findings of the report sorted by severity
BuildReportSorted ==
    /\ pc = "unknown"
    /\ idx = Len(lines)
    /\ result' = [efficiency_score |-> Efficiency(findings, feed_mode),
                  cycle_time_seconds |-> CycleTime(cut_time),
                  findings |-> SortBySeverity(findings),
                  tools |-> ToolSummary(tool_calls, cut_time),
                  breakdown |-> Breakdown(cut_time, move_lengths),
                  returned |-> TRUE]
    /\ pc' = "done"
    /\ UNCHANGED <<lines, idx, exception, calls, first_lines, first_result, locals, ui, threads>>

\* lines 672-691, entered when the second loop is exhausted
BuildReport ==
    /\ pc = "unknown"
    /\ idx = Len(lines)
    /\ result' = [efficiency_score |-> Efficiency(findings, feed_mode),
                  cycle_time_seconds |-> CycleTime(cut_time),
                  findings |-> findings,
                  tools |-> ToolSummary(tool_calls, cut_time),
                  breakdown |-> Breakdown(cut_time, move_lengths),
                  returned |-> TRUE]
    /\ pc' = "done"
    /\ UNCHANGED <<lines, idx, exception, calls, first_lines, first_result, locals, ui, threads>>

\* the other inputs a caller analyzes between two runs on the same lines
OtherPrograms == {<<"M05 T2 G999", "T1 G02 X3 Y4">>}

\* lines 544-564 at a later call on the program next; unsupported is the value
\* unsupported_codes starts from
StartCall(next, unsupported) ==
    /\ lines' = next
    /\ result' = NoResult
    /\ pc' = "forward"
    /\ idx' = 0
    /\ exception' = ""
    /\ units' = "mm"
    /\ feed_mode' = "G94"
    /\ current_tool' = ""
    /\ spindle_on' = FALSE
    /\ last_modal' = ""
    /\ tool_calls' = << >>
    /\ tool_sections' = << >>
    /\ moves' = << >>
    /\ cut_time' = << >>
    /\ findings' = << >>
    /\ g_codes_seen' = {}
    /\ m_codes_seen' = {}
    /\ canned_active' = FALSE
    /\ last_spindle_line' = 0
    /\ retract_cycles' = 0
    /\ last_z' = None
    /\ unsupported_codes' = unsupported
    /\ feed_mode_flagged' = FALSE
    /\ position' = [a \in Axes |-> 0]
    /\ move_lengths' = << >>

\* a later call by the same caller, once the call before has returned
FreshCall(next, unsupported) ==
    /\ pc = "done"
    /\ calls < MaxCalls
    /\ calls' = calls + 1
    /\ first_result' = IF calls = 1 THEN result ELSE first_result
    /\ StartCall(next, unsupported)
    /\ UNCHANGED <<first_lines, ui, threads>>

\* analyze_program with unsupported_codes kept between calls, as a module-level set would be
ReinvokeShared == \E next \in {first_lines} \cup OtherPrograms : FreshCall(next, unsupported_codes)

\* the caller invokes analyze_program again, on the first input or on another one
Reinvoke == \E next \in {first_lines} \cup OtherPrograms : FreshCall(next, {})

Next == ForwardStep \/ PostPass \/ UnknownStep \/ BuildReport

NextTwice == Next \/ Reinvoke

(***************************************************************************)
(* Invocations that run side by side, each on its own input and with its   *)
(* own locals: the running invocation's locals are the variables, the      *)
(* locals of a suspended invocation are kept in frames.                    *)
(***************************************************************************)
\* the invocations that are interleaved
Threads == {1, 2}

\* the frame of the running invocation
CurrentFrame ==
    [lines |-> lines, pc |-> pc, idx |-> idx, exception |-> exception, result |-> result,
     units |-> units, feed_mode |-> feed_mode, current_tool |-> current_tool,
     spindle_on |-> spindle_on, last_modal |-> last_modal, tool_calls |-> tool_calls,
     tool_sections |-> tool_sections, moves |-> moves, cut_time |-> cut_time,
     findings |-> findings, g_codes_seen |-> g_codes_seen, m_codes_seen |-> m_codes_seen,
     canned_active |-> canned_active, last_spindle_line |-> last_spindle_line,
     retract_cycles |-> retract_cycles, last_z |-> last_z,
     unsupported_codes |-> unsupported_codes, feed_mode_flagged |-> feed_mode_flagged,
     position |-> position, move_lengths |-> move_lengths]

\* lines 544-564: the frame of an invocation on the program ls that has not made a step
FreshFrame(ls) ==
    [lines |-> ls, pc |-> "forward", idx |-> 0, exception |-> "", result |-> NoResult,
     units |-> "mm", feed_mode |-> "G94", current_tool |-> "",
     spindle_on |-> FALSE, last_modal |-> "", tool_calls |-> << >>,
     tool_sections |-> << >>, moves |-> << >>, cut_time |-> << >>,
     findings |-> << >>, g_codes_seen |-> {}, m_codes_seen |-> {},
     canned_active |-> FALSE, last_spindle_line |-> 0,
     retract_cycles |-> 0, last_z |-> None,
     unsupported_codes |-> {}, feed_mode_flagged |-> FALSE,
     position |-> [a \in Axes |-> 0], move_lengths |-> << >>]

\* the invocation of frame f goes on; unsupported is the value of unsupported_codes it finds
Resume(f, unsupported) ==
    /\ lines' = f.lines
    /\ pc' = f.pc
    /\ idx' = f.idx
    /\ exception' = f.exception
    /\ result' = f.result
    /\ units' = f.units
    /\ feed_mode' = f.feed_mode
    /\ current_tool' = f.current_tool
    /\ spindle_on' = f.spindle_on
    /\ last_modal' = f.last_modal
    /\ tool_calls' = f.tool_calls
    /\ tool_sections' = f.tool_sections
    /\ moves' = f.moves
    /\ cut_time' = f.cut_time
    /\ findings' = f.findings
    /\ g_codes_seen' = f.g_codes_seen
    /\ m_codes_seen' = f.m_codes_seen
    /\ canned_active' = f.canned_active
    /\ last_spindle_line' = f.last_spindle_line
    /\ retract_cycles' = f.retract_cycles
    /\ last_z' = f.last_z
    /\ unsupported_codes' = unsupported
    /\ feed_mode_flagged' = f.feed_mode_flagged
    /\ position' = f.position
    /\ move_lengths' = f.move_lengths

\* the invocation has returned or raised
Finished(f) == f.pc \in {"done", "error"}

\* the running invocation is suspended between two steps and the invocation t goes on
SwitchTo(t, unsupported) ==
    /\ solo_of = 0
    /\ t # running
    /\ ~Finished(frames[t])
    /\ frames' = [frames EXCEPT ![running] = CurrentFrame]
    /\ running' = t
    /\ Resume(frames[t], unsupported)
    /\ UNCHANGED <<solo_of, calls, first_lines, first_result, ui>>

\* Switch with unsupported_codes shared by the invocations, as a module-level set would be
SwitchSharedCodes == \E t \in Threads : SwitchTo(t, unsupported_codes)

\* the interpreter switches threads between two steps of the running invocation
Switch == \E t \in Threads : SwitchTo(t, frames[t].unsupported_codes)

\* once every interleaved invocation is over, the input of one of them is
\* analyzed again by an invocation that runs alone
RunAlone ==
    /\ solo_of = 0
    /\ Finished(CurrentFrame)
    /\ \A t \in Threads \ {running} : Finished(frames[t])
    /\ \E t \in Threads :
           /\ solo_of' = t
           /\ StartCall(([frames EXCEPT ![running] = CurrentFrame])[t].lines, {})
    /\ frames' = [frames EXCEPT ![running] = CurrentFrame]
    /\ running' = 0
    /\ UNCHANGED <<calls, first_lines, first_result, ui>>

NextConcurrent == Next \/ Switch \/ RunAlone

(***************************************************************************)
(* run_analysis stores the line-number list of a finding as text and       *)
(* _load_history_run loads it back.                                        *)
(***************************************************************************)
DigitChars == <<"0", "1", "2", "3", "4", "5", "6", "7", "8", "9">>

RECURSIVE Str(_)
\* str(n) of an integer n >= 0
Str(n) == IF n < 10 THEN DigitChars[n + 1] ELSE Str(n \div 10) \o DigitChars[(n % 10) + 1]

RECURSIVE JoinNoSeparator(_)
\* Join with the empty separator
JoinNoSeparator(texts) ==
    IF Len(texts) = 0 THEN ""
    ELSE JoinNoSeparator(SubSeq(texts, 1, Len(texts) - 1)) \o texts[Len(texts)]

RECURSIVE Join(_)
\* ",".join(texts)
Join(texts) ==
    IF Len(texts) = 0 THEN ""
    ELSE IF Len(texts) = 1 THEN texts[1]
    ELSE Join(SubSeq(texts, 1, Len(texts) - 1)) \o "," \o texts[Len(texts)]

RECURSIVE NextComma(_, _)
\* the position of the first comma of s at or after position i, Len(s) + 1 when there is none
NextComma(s, i) ==
    IF i > Len(s) THEN Len(s) + 1
    ELSE IF Char(s, i) = "," THEN i
    ELSE NextComma(s, i + 1)

\* s[i:j+1], "" for an empty range
Slice(s, i, j) == IF i <= j THEN SubSeq(s, i, j) ELSE ""

RECURSIVE SplitFrom(_, _)
\* s.split(","), for the part of s from position i on
SplitFrom(s, i) ==
    LET j == NextComma(s, i)
    IN IF j > Len(s) THEN <<Slice(s, i, Len(s))>>
       ELSE <<Slice(s, i, j - 1)>> \o SplitFrom(s, j + 1)

\* s.split(",")
Split(s) == SplitFrom(s, 1)

\* every character of the text is a digit, and there is one
IsDigits(text) == Len(text) > 0 /\ \A i \in 1..Len(text) : Char(text, i) \in Digit

RECURSIVE ParseInt(_)
\* int(text) of a text of digits
ParseInt(text) ==
    IF Len(text) = 1 THEN DigitVal(text)
    ELSE ParseInt(SubSeq(text, 1, Len(text) - 1)) * 10 + DigitVal(Char(text, Len(text)))

\* the pieces the comprehension of line 427 keeps: `if x`
NonEmpty(pieces) == SelectSeq(pieces, LAMBDA x : x # "")

\* line 357 of run_analysis: the list goes to storage as text
StoreFinding ==
    /\ ui_pc = "idle"
    /\ joined' = Join([i \in 1..Len(line_numbers) |-> Str(line_numbers[i])])
    /\ ui_pc' = "stored"
    /\ UNCHANGED <<line_numbers, parsed, calls, first_lines, first_result, frame, threads>>

\* line 427 of _load_history_run: the text is parsed back; int raises ValueError
\* on a piece that is no number
LoadFinding ==
    /\ ui_pc = "stored"
    /\ \E pieces \in {NonEmpty(Split(joined))} :
           IF \A i \in 1..Len(pieces) : IsDigits(pieces[i])
           THEN /\ parsed' = [i \in 1..Len(pieces) |-> ParseInt(pieces[i])]
                /\ ui_pc' = "loaded"
           ELSE /\ parsed' = parsed
                /\ ui_pc' = "ValueError"
    /\ UNCHANGED <<line_numbers, joined, calls, first_lines, first_result, frame, threads>>

NextRoundTrip == StoreFinding \/ LoadFinding

(***************************************************************************)
(* Specifications: the same program run on different families of inputs.   *)
(***************************************************************************)
\* the lines of the general specification
MainLines ==
    {"M3", "M05 T2 G999", "G1 X10", "T1 G02 X3 Y4", "g0 z5 m4",
     "M99 g999 M30", "G20 X1", "G21 T1", "M3 M5 G3 X2"}

\* Z moves and other moves
ZLines == {"Z10", "G1 Z5", "X1 Y1", "G0 X2 Z5"}

\* the lines that alternate in the retract specification
RetractLines == <<"Z10", "Z5">>

\* the first k lines of Z10, Z5, Z10, Z5, ...
Alternating(k) == [i \in 1..k |-> RetractLines[2 - (i % 2)]]

\* the lines of the tail of a retract program
TailLines == {"Z10", "Z5", "G0 X1"}

\* a run of alternating Z moves, then a free tail
RetractPrograms ==
    {Alternating(k) \o tail : k \in 0..MaxRetractLines, tail \in Programs(TailLines, MaxTailLines)}

\* coordinates at and beyond the largest float: X9999999 parses to Inf, X9999 is
\* finite with a square that is not
FloatLines == {"T1 M3 G1 X9999999", "G1 X9999", "X1", "G1 X9999999 Y-9999999", "T2 G1 Z2", "G0 X-9999999"}

Init == InitWith(Programs(MainLines, MaxLines))
Spec == Init /\ [][Next]_vars

\* analyze_program called MaxCalls times on the same lines
InitTwice == InitWith(Programs(MainLines, MaxTwiceLines))
SpecTwice == InitTwice /\ [][NextTwice]_vars

InitZ == InitWith(Programs(ZLines, MaxZLines))
SpecZ == InitZ /\ [][Next]_vars

InitRetract == InitWith(RetractPrograms)
SpecRetract == InitRetract /\ [][Next]_vars

InitFloat == InitWith(Programs(FloatLines, MaxFloatLines))
SpecFloat == InitFloat /\ [][Next]_vars

\* tools that cut and tools that do not, feed modes, a canned cycle, codes
\* outside the allow-list, long, short and infinite moves
ReportLines ==
    {"M3 G1 X10", "G20 X1", "T1 G1 X10", "T2", "G95 G81 M7", "t2 g1 x250 m7",
     "G94 G80 X0.1 T1", "G1 X9999999"}

InitReport == InitWith(Programs(ReportLines, MaxReportLines))
SpecReport == InitReport /\ [][Next]_vars

\* k lines G1: each but the first repeats the modal code of the line before
Repeated(k) == [i \in 1..k |-> "G1"]

\* a feed-mode line or none, a run of G1 lines, a feed-mode line or none
SpamPrograms ==
    {head \o Repeated(k) \o tail :
        head \in {<< >>, <<"G95">>}, k \in 0..MaxSpamLines, tail \in {<< >>, <<"G94">>, <<"g95">>}}

InitSpam == InitWith(SpamPrograms)
SpecSpam == InitSpam /\ [][Next]_vars

\* lines without any token (empty, comments, block numbers run into words)
\* among lines with tokens
CommentLines == {"", "(prog95)", "N1G20", "% x y z", "OG80 T", "G81 X1", "G21 G1 X2 T1"}

InitComment == InitWith(Programs(CommentLines, MaxCommentLines))
SpecComment == InitComment /\ [][Next]_vars

\* the lines of the concurrent specification
ConcurrentLines == {"T1 G1 X10 M7", "g95 m7 x2 m8"}

\* two invocations, each on a program of its own; the first one runs
InitConcurrent ==
    /\ InitUi
    /\ InitCall(Programs(ConcurrentLines, MaxConcurrentLines))
    /\ running = 1
    /\ solo_of = 0
    /\ \E other \in Programs(ConcurrentLines, MaxConcurrentLines) :
           frames = [t \in Threads |-> FreshFrame(IF t = 1 THEN lines ELSE other)]
SpecConcurrent == InitConcurrent /\ [][NextConcurrent]_vars

\* the line numbers of the round-trip specification: one to three digits
LineNumbers == 1..MaxLineNumber \cup {100, 999}

\* a finding with one of the line-number lists is stored and loaded; no program is under analysis
InitRoundTrip ==
    /\ line_numbers \in Programs(LineNumbers, MaxListLen)
    /\ joined = ""
    /\ parsed = << >>
    /\ ui_pc = "idle"
    /\ InitThreads
    /\ InitCall({<< >>})
SpecRoundTrip == InitRoundTrip /\ [][NextRoundTrip]_vars

(***************************************************************************)
(* Properties.                                                             *)
(***************************************************************************)
\* the upper-cased text of line k
U(k) == Upper(lines[k])

\* C1: every returned report has 0 <= efficiency_score <= 100 and
\* cycle_time_seconds >= 0.
C1_ScoreAndCycleTimeInRange ==
    pc = "done" =>
        /\ result.efficiency_score >= 0
        /\ result.efficiency_score <= 10000
        /\ FGe(result.cycle_time_seconds, 0)

\* C2: on the empty line sequence the report has no findings, efficiency 100,
\* cycle time 0, an empty tool summary and an all-zero breakdown.
C2_EmptyProgram ==
    (pc = "done" /\ lines = << >>) =>
        /\ result.findings = << >>
        /\ result.efficiency_score = 10000
        /\ result.cycle_time_seconds = 0
        /\ result.tools = << >>
        /\ result.breakdown = [cut_distance_mm |-> 0, move_distance_mm |-> 0, avg_move_mm |-> 0]

C2_Witness == pc = "done" /\ lines = << >> /\ result.returned

\* C3: a later run on the lines of the first run returns the report the first
\* run returned, whatever other inputs were analyzed in between.
C3_SameReport ==
    (pc = "done" /\ calls > 1 /\ lines = first_lines) => result = first_result

C3_Witness ==
    /\ pc = "done"
    /\ calls = 3
    /\ lines = first_lines
    /\ Len(result.findings) > 1
    /\ Len(result.tools) > 0

\* C4: no input puts analyze_program in an error state: every line is
\* processed and no exception leaves the function.
C4_NoException == pc # "error"

\* line k carries an axis coordinate and its motion-modal code is a cutting code
CuttingMoveLine(k) == (\E a \in Axes : HasCoord(U(k), a)) /\ ModalMatch(U(k)) \in CuttingModals

\* some line from..k starts the spindle and no line from it up to k stops it
SpindleStartedSince(from, k) ==
    \E j \in from..k : SpindleStart(U(j)) /\ \A i \in j..k : ~SpindleStop(U(i))

IsSpindleMissing(f, k) == f.rule_id = "SPINDLE_MISSING" /\ f.line_numbers = <<k>>

\* C5: for every line with an axis coordinate and a cutting motion-modal code,
\* the report has a CRITICAL SPINDLE_MISSING finding on exactly that line when
\* the spindle is off at the move, and none for that line when an earlier line
\* started the spindle and nothing stopped it since.
C5_SpindleMissing ==
    pc = "done" =>
        \A k \in 1..Len(lines) :
            CuttingMoveLine(k) =>
                LET hits == {i \in 1..Len(result.findings) : IsSpindleMissing(result.findings[i], k)}
                IN /\ ~SpindleStartedSince(1, k) =>
                          /\ Cardinality(hits) = 1
                          /\ \A i \in hits : result.findings[i].severity = "CRITICAL"
                   /\ (k > 1 /\ SpindleStartedSince(1, k - 1) /\ ~SpindleStop(U(k))) => hits = {}

C5_Witness ==
    /\ pc = "done"
    /\ \E k \in 1..Len(lines) :
           CuttingMoveLine(k) /\ k > 1 /\ SpindleStartedSince(1, k - 1) /\ ~SpindleStop(U(k))
    /\ \E k \in 1..Len(lines) :
           /\ CuttingMoveLine(k)
           /\ ~SpindleStartedSince(1, k)
           /\ \E j \in 1..k : SpindleStart(U(j))

\* the G/M codes of line k
CodesOf(k) == {FindCodes(U(k))[i] : i \in 1..Len(FindCodes(U(k)))}

\* the distinct codes of the program that are not in the allow-list
UnknownCodesOfProgram == (UNION {CodesOf(k) : k \in 1..Len(lines)}) \ supported_codes

\* the first line on which code c occurs
FirstLineOf(c) == CHOOSE k \in 1..Len(lines) : c \in CodesOf(k) /\ \A j \in 1..(k - 1) : c \notin CodesOf(j)

IsUnknownCode(f) == f.rule_id = "UNKNOWN_CODE"

\* C6: the report has exactly one UNKNOWN_CODE finding for each distinct G/M
\* code of the program outside the allow-list, on the first line where the
\* code occurs, and no other UNKNOWN_CODE finding.
C6_UnknownCodeOnce ==
    pc = "done" =>
        /\ \A c \in UnknownCodesOfProgram :
               Cardinality({i \in 1..Len(result.findings) :
                               result.findings[i] =
                                   Finding("INFO", "UNKNOWN_CODE", <<FirstLineOf(c)>>,
                                           "Unknown/Unhandled code encountered: " \o c \o ".", 0)}) = 1
        /\ Cardinality({i \in 1..Len(result.findings) : IsUnknownCode(result.findings[i])})
               = Cardinality(UnknownCodesOfProgram)

C6_Witness ==
    /\ pc = "done"
    /\ Cardinality(UnknownCodesOfProgram) = 2
    /\ \E c \in UnknownCodesOfProgram :
           Cardinality({k \in 1..Len(lines) : c \in CodesOf(k)}) = 3
    /\ \E k \in 1..Len(lines) : CodesOf(k) \cap supported_codes # {}

RECURSIVE SelectionLines(_, _)
\* the ordered list of the lines 1..k that select tool t
SelectionLines(t, k) ==
    IF k = 0 THEN << >>
    ELSE IF ToolMatch(U(k)) = t THEN Append(SelectionLines(t, k - 1), k)
    ELSE SelectionLines(t, k - 1)

\* the tool identifiers the program selects
ToolsOfProgram == {ToolMatch(U(k)) : k \in 1..Len(lines)} \ {""}

IsToolRecall(f) == f.rule_id = "TOOL_RECALL"

\* C7: a tool selected on more than one line has exactly one WARN TOOL_RECALL
\* finding, whose line numbers are the ordered list of its selection lines; a
\* tool selected on one line has none.
C7_ToolRecall ==
    pc = "done" =>
        /\ \A t \in ToolsOfProgram :
               LET sel == SelectionLines(t, Len(lines))
                   hits == {i \in 1..Len(result.findings) :
                               IsToolRecall(result.findings[i]) /\ result.findings[i].line_numbers = sel}
               IN /\ Len(sel) > 1 =>
                         /\ Cardinality(hits) = 1
                         /\ \A i \in hits :
                                result.findings[i] =
                                    Finding("WARN", "TOOL_RECALL", sel,
                                            "Tool " \o t \o " recalled in multiple sections.", 0)
                  /\ Len(sel) = 1 => hits = {}
        /\ Cardinality({i \in 1..Len(result.findings) : IsToolRecall(result.findings[i])})
               = Cardinality({t \in ToolsOfProgram : Len(SelectionLines(t, Len(lines))) > 1})

C7_Witness ==
    /\ pc = "done"
    /\ \E t \in ToolsOfProgram : Len(SelectionLines(t, Len(lines))) = 2
    /\ \E t \in ToolsOfProgram : Len(SelectionLines(t, Len(lines))) = 1

RECURSIVE AxisAfter(_, _)
\* the coordinate of axis a after line k: the one of the last line that carries it, 0 at the start
AxisAfter(a, k) ==
    IF k = 0 THEN 0
    ELSE IF HasCoord(U(k), a) THEN CoordValue(U(k), a)
    ELSE AxisAfter(a, k - 1)

RECURSIVE InchAt(_)
\* units are inch at line k: the last line up to k that names a unit code names G20 and not G21
InchAt(k) ==
    IF k = 0 THEN FALSE
    ELSE IF Contains(U(k), "G21") THEN FALSE
    ELSE IF Contains(U(k), "G20") THEN TRUE
    ELSE InchAt(k - 1)

RECURSIVE MoveLines(_)
\* the ordered list of the lines 1..k that carry an axis coordinate
MoveLines(k) ==
    IF k = 0 THEN << >>
    ELSE IF \E a \in Axes : HasCoord(U(k), a) THEN Append(MoveLines(k - 1), k)
    ELSE MoveLines(k - 1)

\* the sum of the squared coordinate differences across line k
SquaredLength(k) ==
    LET dx == AxisAfter("X", k) - AxisAfter("X", k - 1)
        dy == AxisAfter("Y", k) - AxisAfter("Y", k - 1)
        dz == AxisAfter("Z", k) - AxisAfter("Z", k - 1)
    IN dx * dx + dy * dy + dz * dz

\* d is the square root of n, rounded down to a hundredth
IsRootOf(d, n) == d >= 0 /\ d * d <= n /\ n < (d + 1) * (d + 1)

\* d is 25.4 times the square root of n
IsInchRootOf(d, n) ==
    \E e \in {ISqrt(n)} : IsRootOf(e, n) /\ d * 10 <= e * 254 /\ e * 254 < (d + 1) * 10

\* C8: every recorded move distance is the Euclidean distance between the
\* position before the line and the target position, times 25.4 when units
\* are inch at the move; after G20 a move from X0 to X1 is recorded as 25.4.
C8_MoveDistance ==
    pc = "done" =>
        \E ml \in {MoveLines(Len(lines))} :
            /\ Len(moves) = Len(ml)
            /\ \A m \in 1..Len(moves) :
                   \E k \in {ml[m]}, sq \in {SquaredLength(ml[m])} :
                       /\ moves[m][1] = k
                       /\ move_lengths[m] = moves[m][2]
                       /\ IF InchAt(k) THEN IsInchRootOf(moves[m][2], sq) ELSE IsRootOf(moves[m][2], sq)
                       /\ (InchAt(k) /\ sq = 100 * 100) => moves[m][2] = 2540

C8_Witness ==
    /\ pc = "done"
    /\ \E m \in 1..Len(moves) : InchAt(moves[m][1]) /\ moves[m][2] = 2540
    /\ \E m \in 1..Len(moves) : ~InchAt(moves[m][1]) /\ moves[m][2] > 0
    /\ \E m \in 1..Len(moves) : InchAt(moves[m][1]) /\ moves[m][2] > 2540

RECURSIVE ZValues(_)
\* the Z coordinates of the lines 1..k that carry one, in order
ZValues(k) ==
    IF k = 0 THEN << >>
    ELSE IF HasCoord(U(k), "Z") THEN Append(ZValues(k - 1), CoordValue(U(k), "Z"))
    ELSE ZValues(k - 1)

\* the forward loop has processed every line
ForwardDone == pc \in {"unknown", "done"}

\* C9 as stated: a program whose Z-bearing moves are Z10, Z5, Z10, Z5 ends the
\* forward pass with the retract-cycle counter at 2.0.
C9_RetractCounterTwo ==
    (ForwardDone /\ ZValues(Len(lines)) = <<1000, 500, 1000, 500>>) => retract_cycles = 200

\* C9 as amended: a program whose Z-bearing moves are Z10, Z5, Z10, Z5 ends the
\* forward pass with the retract-cycle counter at 1.5: the first Z-bearing line
\* has no earlier Z to compare with and each of the three changes adds 0.5.
C9_RetractCounterOneAndHalf ==
    (ForwardDone /\ ZValues(Len(lines)) = <<1000, 500, 1000, 500>>) => retract_cycles = 150

C9_Witness ==
    /\ pc = "done"
    /\ ZValues(Len(lines)) = <<1000, 500, 1000, 500>>
    /\ Len(lines) = 5

\* the number of Z-bearing lines whose Z differs from the Z of the Z-bearing line before
ZChanges == Cardinality({i \in 2..Len(ZValues(Len(lines))) : ZValues(Len(lines))[i] # ZValues(Len(lines))[i - 1]})

IsExcessRetracts(f) == f.rule_id = "EXCESS_RETRACTS"

\* the report has one EXCESS_RETRACTS finding, WARN with no line numbers, when the
\* counter is at least 6 and none otherwise
ExcessRetractsIffCounter ==
    /\ Cardinality({i \in 1..Len(result.findings) : IsExcessRetracts(result.findings[i])})
           = (IF retract_cycles >= 600 THEN 1 ELSE 0)
    /\ \A i \in 1..Len(result.findings) :
           IsExcessRetracts(result.findings[i]) =>
               result.findings[i] = Finding("WARN", "EXCESS_RETRACTS", << >>, "Excessive retract cycles detected.", 0)

\* C10 as stated: one WARN EXCESS_RETRACTS finding without line numbers when
\* the retract-cycle counter is >= 6, none otherwise, and a program with six
\* or more Z half-cycles has the finding.
C10_ExcessRetractsSixHalfCycles ==
    pc = "done" =>
        /\ ExcessRetractsIffCounter
        /\ ZChanges >= 6 => \E i \in 1..Len(result.findings) : IsExcessRetracts(result.findings[i])

\* C10 as amended: one WARN EXCESS_RETRACTS finding without line numbers when
\* the retract-cycle counter is >= 6, none otherwise; a program has the
\* finding when it has twelve or more Z half-cycles (Z changes of 0.5 each),
\* and not with fewer.
C10_ExcessRetracts ==
    pc = "done" =>
        /\ ExcessRetractsIffCounter
        /\ ZChanges >= 12 <=> \E i \in 1..Len(result.findings) : IsExcessRetracts(result.findings[i])

C10_Witness ==
    /\ pc = "done"
    /\ ZChanges = 12
    /\ retract_cycles = 600
    /\ \E i \in 1..Len(result.findings) : IsExcessRetracts(result.findings[i])

\* C11: joining a list of positive line numbers with commas and parsing the
\* text back gives the list again, element for element and in order; the
\* empty list comes back empty.
C11_RoundTrip == ui_pc \in {"loaded", "ValueError"} => (ui_pc = "loaded" /\ parsed = line_numbers)

C11_Witness ==
    /\ ui_pc = "loaded"
    /\ Len(line_numbers) = 3
    /\ line_numbers[1] > line_numbers[2]
    /\ line_numbers[2] = 10
    /\ line_numbers[3] = 999
    /\ parsed = line_numbers

\* the rules the forward pass evaluates on each line
PerLineRules == {"MODAL_SPAM", "SPINDLE_MISSING", "FEED_UNSUPPORTED"}

\* the rules evaluated once the forward pass is over
WholeProgramRules == {"CANNED_MISSING_G80", "EXCESS_RETRACTS", "TOOL_RECALL", "TINY_SEGMENTS", "AIR_CUT"}

\* fs is in detection order: the per-line findings by line, then the
\* whole-program findings, then the UNKNOWN_CODE findings by line
InDetectionOrder(fs) ==
    /\ \A i \in 1..Len(fs) : fs[i].rule_id \in PerLineRules \cup WholeProgramRules \cup {"UNKNOWN_CODE"}
    /\ \A i \in 1..Len(fs) : \A j \in (i + 1)..Len(fs) :
           /\ (fs[i].rule_id \in PerLineRules /\ fs[j].rule_id \in PerLineRules)
                  => fs[i].line_numbers[1] <= fs[j].line_numbers[1]
           /\ fs[i].rule_id \in WholeProgramRules => fs[j].rule_id \notin PerLineRules
           /\ fs[i].rule_id = "UNKNOWN_CODE"
                  => (fs[j].rule_id = "UNKNOWN_CODE" /\ fs[i].line_numbers[1] <= fs[j].line_numbers[1])

\* the findings of fs are the first findings of gs, unchanged and in the same order
IsPrefix(fs, gs) == Len(fs) <= Len(gs) /\ SubSeq(gs, 1, Len(fs)) = fs

\* C12: the findings list only grows at its end, a finding once appended is
\* never removed, reordered or changed; per-line findings come in line order
\* and before every whole-program finding, UNKNOWN_CODE findings come last
\* and in line order, and the report carries the list as it is, not sorted
\* by severity.
C12_DetectionOrder ==
    /\ [](InDetectionOrder(findings) /\ (pc = "done" => result.findings = findings))
    /\ [][IsPrefix(findings, findings')]_vars

C12_Witness ==
    /\ pc = "done"
    /\ \E i, j, k, l \in 1..Len(result.findings) :
           /\ i < j /\ j < k /\ k < l
           /\ result.findings[i].rule_id = "FEED_UNSUPPORTED"
           /\ result.findings[j].rule_id = "CANNED_MISSING_G80"
           /\ result.findings[j].severity = "CRITICAL"
           /\ result.findings[k].rule_id = "AIR_CUT"
           /\ result.findings[l].rule_id = "UNKNOWN_CODE"

\* C13: the keys of the report's tool summary are the tools selected on at
\* least one line, each once, and the 'calls' value of a tool is the number
\* of lines that select it.
C13_ToolSummary ==
    pc = "done" =>
        /\ {result.tools[i][1] : i \in 1..Len(result.tools)} = ToolsOfProgram
        /\ Len(result.tools) = Cardinality(ToolsOfProgram)
        /\ \A i \in 1..Len(result.tools) :
               result.tools[i][2].calls = Len(SelectionLines(result.tools[i][1], Len(lines)))

C13_Witness ==
    /\ pc = "done"
    /\ Len(result.tools) = 2
    /\ result.tools[1][2].calls = 1
    /\ result.tools[1][2].cut_time = 0
    /\ result.tools[2][2].calls = 2
    /\ result.tools[2][2].cut_time > 0

\* C14: with N findings in the report, efficiency_score is 100 - 2.5 * N,
\* or 0 when that is negative; when the feed mode after the last line is G95,
\* 10 is taken off that value and the result is again 0 when negative.  The
\* deduction follows the final feed mode only.
C14_Efficiency ==
    pc = "done" =>
        LET N == Len(result.findings)
            base == IF 250 * N > 10000 THEN 0 ELSE 10000 - 250 * N
        IN result.efficiency_score =
               (IF feed_mode = "G95" THEN (IF base < 1000 THEN 0 ELSE base - 1000) ELSE base)

C14_Witness ==
    /\ pc = "done"
    /\ feed_mode = "G94"
    /\ \E i \in 1..Len(result.findings) : result.findings[i].rule_id = "FEED_UNSUPPORTED"
    /\ Len(result.findings) = 39
    /\ result.efficiency_score = 250

RECURSIVE ToolAt(_)
\* the tool selected by the last line up to k that selects one, "" when there is none
ToolAt(k) ==
    IF k = 0 THEN ""
    ELSE IF ToolMatch(U(k)) # "" THEN ToolMatch(U(k))
    ELSE ToolAt(k - 1)

\* the lines whose move adds to the cut distance of a tool
CutLines == {k \in 1..Len(lines) : CuttingMoveLine(k) /\ ToolAt(k) # ""}

\* the cut distances of the tools of the report's tool summary, in its order
SummaryCuts == [i \in 1..Len(result.tools) |-> result.tools[i][2].cut_time]

\* q is total / n, rounded down to a hundredth; an infinite or undefined
\* total gives itself
IsQuotient(q, total, n) ==
    IF IsFinite(total) THEN q * n <= total /\ total < (q + 1) * n ELSE q = total

\* C15: cycle_time_seconds is the sum of the cut distances of all tools
\* divided by 10, and 0 when no move added to the cut distance of a tool.
C15_CycleTime ==
    pc = "done" =>
        /\ IsQuotient(result.cycle_time_seconds, FSum(SummaryCuts), 10)
        /\ CutLines = {} => result.cycle_time_seconds = 0

C15_Witness ==
    /\ pc = "done"
    /\ Len(result.tools) = 2
    /\ Len(cut_time) = 2
    /\ result.tools[1][1] # cut_time[1][1]
    /\ result.tools[1][2].cut_time > 100
    /\ result.tools[2][2].cut_time > 100
    /\ result.cycle_time_seconds > 10
    /\ IsFinite(result.cycle_time_seconds)

\* C16: in the breakdown, cut_distance_mm is the sum of the cut distances of
\* the tools of the tool summary, move_distance_mm the sum of the distances of
\* all recorded moves, and avg_move_mm is move_distance_mm divided by the
\* number of recorded moves, 0 when there is none.
C16_Breakdown ==
    pc = "done" =>
        /\ result.breakdown.cut_distance_mm = FSum(SummaryCuts)
        /\ result.breakdown.move_distance_mm = FSum([m \in 1..Len(moves) |-> moves[m][2]])
        /\ Len(moves) = Len(MoveLines(Len(lines)))
        /\ IF Len(moves) = 0 THEN result.breakdown.avg_move_mm = 0
           ELSE IsQuotient(result.breakdown.avg_move_mm, result.breakdown.move_distance_mm, Len(moves))

C16_Witness ==
    /\ pc = "done"
    /\ Len(moves) = 3
    /\ result.breakdown.cut_distance_mm > 0
    /\ result.breakdown.move_distance_mm > result.breakdown.cut_distance_mm
    /\ IsFinite(result.breakdown.move_distance_mm)
    /\ result.breakdown.avg_move_mm * 3 < result.breakdown.move_distance_mm

\* C17: after any prefix of the program every recorded move distance and every
\* tool's cut distance is >= 0, and in every report
\* 0 <= cut_distance_mm <= move_distance_mm.
C17_DistancesNonNegative ==
    /\ \A m \in 1..Len(move_lengths) : FGe(move_lengths[m], 0)
    /\ \A i \in 1..Len(cut_time) : FGe(cut_time[i][2], 0)
    /\ pc = "done" =>
           /\ FGe(result.breakdown.cut_distance_mm, 0)
           /\ FGe(result.breakdown.move_distance_mm, result.breakdown.cut_distance_mm)

\* the line has no whole-word G<digits> or M<digits> token, no whole-word
\* T<digits> token and no axis letter followed by a number
NoTokens(line) ==
    /\ FindCodes(line) = << >>
    /\ ToolMatch(line) = ""
    /\ \A a \in Axes : ~HasCoord(line, a)

\* C19: the forward pass over a line without tokens leaves units, feed mode,
\* spindle state, canned-cycle flag, current tool, last modal code, position,
\* retract counter, tool tallies and the move list as they are and appends no
\* finding.
C19_NoTokenLine ==
    [][(pc = "forward" /\ idx < Len(lines) /\ NoTokens(Upper(lines[idx + 1])))
          => UNCHANGED <<units, feed_mode, spindle_on, canned_active, current_tool, last_modal,
                         position, retract_cycles, last_z, tool_calls, tool_sections, cut_time,
                         moves, move_lengths, findings>>]_vars

\* the step of the forward pass over line idx + 1, which carries a coordinate
MoveStep ==
    /\ pc = "forward"
    /\ pc' = "forward"
    /\ idx' = idx + 1
    /\ \E a \in Axes : HasCoord(Upper(lines[idx + 1]), a)

\* the findings the step appended
Appended == SubSeq(findings', Len(findings) + 1, Len(findings'))

\* the sum of the squared coordinate differences of the step
SquaredStep ==
    LET dx == position'["X"] - position["X"]
        dy == position'["Y"] - position["Y"]
        dz == position'["Z"] - position["Z"]
    IN dx * dx + dy * dy + dz * dz

\* C20: the unit code, the spindle code and the tool selection of a line take
\* effect before the move of the same line: a cutting move on a line that
\* starts the spindle gets no SPINDLE_MISSING, a move on a G20 line is
\* recorded times 25.4, and a cutting move on a line that selects a tool adds
\* its distance to the cut distance of that tool.
C20_FoldOrder ==
    [][MoveStep =>
          \E line \in {Upper(lines[idx + 1])}, dist \in {move_lengths'[Len(move_lengths')]} :
              /\ Len(move_lengths') = Len(move_lengths) + 1
              /\ (ModalMatch(line) \in CuttingModals /\ SpindleStart(line) /\ ~SpindleStop(line))
                     => \A i \in 1..Len(Appended) : Appended[i].rule_id # "SPINDLE_MISSING"
              /\ (Contains(line, "G20") /\ ~Contains(line, "G21")
                      /\ \A a \in Axes : IsFinite(position[a]) /\ IsFinite(position'[a]))
                     => IsInchRootOf(dist, SquaredStep)
              /\ (ModalMatch(line) \in CuttingModals /\ ToolMatch(line) # "")
                     => DictGet(cut_time', ToolMatch(line), 0)
                            = FAdd(DictGet(cut_time, ToolMatch(line), 0), dist)]_vars

C20_Witness ==
    /\ pc = "done"
    /\ lines = <<"M3 G1 X10", "G20 X1", "T1 G1 X10">>
    /\ \A i \in 1..Len(result.findings) : result.findings[i].rule_id # "SPINDLE_MISSING"
    /\ move_lengths = <<1000, 22860, 22860>>
    /\ result.tools = <<<<"1", [calls |-> 1, cut_time |-> 22860]>>>>

\* C18: whatever the interleaving of their steps, each of the invocations
\* returned the report (or raised the exception) the invocation that runs
\* alone on the same input returns.
C18_Interleaved ==
    (solo_of # 0 /\ Finished(CurrentFrame)) =>
        /\ lines = frames[solo_of].lines
        /\ pc = frames[solo_of].pc
        /\ result = frames[solo_of].result
        /\ exception = frames[solo_of].exception

C18_Witness ==
    /\ solo_of = 1
    /\ pc = "done"
    /\ frames[1].lines # frames[2].lines
    /\ Len(result.findings) > 2
    /\ Len(frames[2].result.findings) > 2
    /\ \E i \in 1..Len(result.findings), j \in 1..Len(frames[2].result.findings) :
           /\ result.findings[i].rule_id = "UNKNOWN_CODE"
           /\ result.findings[i].message = frames[2].result.findings[j].message

\* motion codes with and without the leading zero, lines without one, a line
\* with two of them
ModalLines == {"G1 X1", "G01 X2", "X3", "G0 G1 X4", "g1"}

InitModal == InitWith(Programs(ModalLines, MaxModalLines))
SpecModal == InitModal /\ [][Next]_vars

\* the number of INFO MODAL_SPAM findings of the report with line list [n]
SpamCount(n) ==
    Cardinality({i \in 1..Len(result.findings) :
                    /\ result.findings[i].rule_id = "MODAL_SPAM"
                    /\ result.findings[i].severity = "INFO"
                    /\ result.findings[i].line_numbers = <<n>>})

\* the motion code of a token: G00 and G0 are the rapid code, G01 and G1 the
\* linear code, and so on; "" for no token
MotionCode(token) == IF token = "" THEN "" ELSE "G" \o Char(token, Len(token))

\* C21: the report has an INFO MODAL_SPAM finding with line list [n] iff line
\* n carries a motion-modal code and line n - 1 carries the same motion-modal
\* code.
C21_ModalSpam ==
    pc = "done" =>
        \A n \in 1..Len(lines) :
            SpamCount(n) > 0
                <=> /\ n > 1
                    /\ ModalMatch(U(n)) # ""
                    /\ MotionCode(ModalMatch(U(n))) = MotionCode(ModalMatch(U(n - 1)))

RECURSIVE LastModalText(_)
\* the text of the first motion-modal token of the last of the lines 1..k that
\* carries one, "" when none does
LastModalText(k) ==
    IF k = 0 THEN ""
    ELSE IF ModalMatch(U(k)) # "" THEN ModalMatch(U(k))
    ELSE LastModalText(k - 1)

\* C29: the report has one MODAL_SPAM finding for line n when the text of the
\* first motion-modal token of line n is the text of the first motion-modal
\* token of the most recent earlier line that carries one, whatever the number
\* of lines without such a token in between, and none otherwise: G1 after G01
\* gets none.
C29_LastRecordedModal ==
    pc = "done" =>
        /\ \A n \in 1..Len(lines) :
               SpamCount(n) = IF ModalMatch(U(n)) # "" /\ ModalMatch(U(n)) = LastModalText(n - 1)
                              THEN 1 ELSE 0
        /\ \A i \in 1..Len(result.findings) :
               result.findings[i].rule_id = "MODAL_SPAM"
                   => \E n \in 1..Len(lines) :
                          /\ result.findings[i].line_numbers = <<n>>
                          /\ result.findings[i].severity = "INFO"

C29_Witness ==
    /\ pc = "done"
    /\ lines = <<"G01 X2", "G1 X1", "X3", "G1 X1">>
    /\ SpamCount(1) = 0
    /\ SpamCount(2) = 0
    /\ SpamCount(3) = 0
    /\ SpamCount(4) = 1

\* feed-mode codes, alone, with a move and together, and a move without one
FeedLines == {"G95", "G94", "X1", "g95 x2", "G94 G95"}

InitFeed == InitWith(Programs(FeedLines, MaxFeedLines))
SpecFeed == InitFeed /\ [][Next]_vars

RECURSIVE FeedAt(_)
\* the feed mode at the end of the processing of line k
FeedAt(k) == IF k = 0 THEN "G94" ELSE FeedModeAfter(U(k), FeedAt(k - 1))

\* the indices of the FEED_UNSUPPORTED findings of the report
FeedFindings == {i \in 1..Len(result.findings) : result.findings[i].rule_id = "FEED_UNSUPPORTED"}

\* the lines at whose end the feed mode is per-revolution
PerRevLines == {k \in 1..Len(lines) : FeedAt(k) = "G95"}

\* C22: the report has at most one FEED_UNSUPPORTED finding, however often
\* the feed mode changes; it has one iff the feed mode is G95 at the end of
\* the processing of some line, and that finding is INFO with the first such
\* line as its line list.
C22_FeedUnsupportedOnce ==
    pc = "done" =>
        /\ Cardinality(FeedFindings) <= 1
        /\ Cardinality(FeedFindings) = 1 <=> PerRevLines # {}
        /\ \A i \in FeedFindings :
               /\ result.findings[i].severity = "INFO"
               /\ \E k \in PerRevLines :
                      /\ \A j \in PerRevLines : k <= j
                      /\ result.findings[i].line_numbers = <<k>>

C22_Witness ==
    /\ pc = "done"
    /\ lines = <<"X1", "G95", "G94", "g95 x2">>
    /\ PerRevLines = {2, 4}
    /\ \E i \in FeedFindings : result.findings[i].line_numbers = <<2>>

\* C30: when the feed mode after the last line is G95 the report has exactly
\* one FEED_UNSUPPORTED finding and the efficiency score is at most 87.5; a
\* report with a FEED_UNSUPPORTED finding and a final feed mode G94 has the
\* score of its findings alone, without the deduction of 10.
C30_FinalG95 ==
    pc = "done" =>
        /\ feed_mode = "G95" =>
               /\ Cardinality(FeedFindings) = 1
               /\ result.efficiency_score <= 8750
        /\ (feed_mode = "G94" /\ FeedFindings # {}) =>
               result.efficiency_score = Max(0, 10000 - 250 * Len(result.findings))

C30_Witness ==
    /\ pc = "done"
    /\ lines = <<"G95", "G94", "G95">>
    /\ feed_mode = "G95"
    /\ Cardinality(FeedFindings) = 1
    /\ Len(result.findings) = 1
    /\ result.efficiency_score = 8750

RECURSIVE CannedCycleOpen(_)
\* a canned cycle is open after line k: the last of the lines 1..k with a
\* whole-word G80..G89 code has one of G81..G89 and no G80
CannedCycleOpen(k) ==
    IF k = 0 THEN FALSE
    ELSE IF HasWord(U(k), "G80") THEN FALSE
    ELSE IF \E d \in Digit \ {"0"} : HasWord(U(k), "G8" \o d) THEN TRUE
    ELSE CannedCycleOpen(k - 1)

\* the number of CRITICAL CANNED_MISSING_G80 findings of the report with an
\* empty line list
CannedCount ==
    Cardinality({i \in 1..Len(result.findings) :
                    /\ result.findings[i].rule_id = "CANNED_MISSING_G80"
                    /\ result.findings[i].severity = "CRITICAL"
                    /\ result.findings[i].line_numbers = << >>})

\* C23: a code G81..G89 opens a canned cycle and a code G80 closes it; the
\* report has one CRITICAL CANNED_MISSING_G80 finding with an empty line list
\* when a cycle is open after the last line (a line with G81..G89 is followed
\* by no G80), and none otherwise.
C23_CannedMissing ==
    pc = "done" =>
        /\ canned_active = CannedCycleOpen(Len(lines))
        /\ CannedCount = IF CannedCycleOpen(Len(lines)) THEN 1 ELSE 0
        /\ \A i \in 1..Len(result.findings) :
               result.findings[i].rule_id = "CANNED_MISSING_G80"
                   => result.findings[i].severity = "CRITICAL" /\ result.findings[i].line_numbers = << >>

\* moves of 0.5 and around it, a move of length 0, a line without a move
TinyLines == {"X0.5", "X1", "X0.4", "G1", "X0"}

InitTiny == InitWith(Programs(TinyLines, MaxTinyLines))
SpecTiny == InitTiny /\ [][Next]_vars

\* the number of WARN TINY_SEGMENTS findings of the report with an empty line list
TinyCount ==
    Cardinality({i \in 1..Len(result.findings) :
                    /\ result.findings[i].rule_id = "TINY_SEGMENTS"
                    /\ result.findings[i].severity = "WARN"
                    /\ result.findings[i].line_numbers = << >>})

\* there is a move and the mean of the recorded distances is below 0.5: the
\* sum, in hundredths, is below 50 times the number of moves
MeanBelowHalf ==
    /\ Len(move_lengths) > 0
    /\ IsFinite(FSum(move_lengths))
    /\ FSum(move_lengths) < 50 * Len(move_lengths)

\* C24: the report has one WARN TINY_SEGMENTS finding with an empty line list
\* when at least one move was recorded and the mean of the recorded distances
\* is strictly below 0.5, and none otherwise: none without a move, none for a
\* mean of exactly 0.5.
C24_TinySegments ==
    pc = "done" =>
        /\ TinyCount = IF MeanBelowHalf THEN 1 ELSE 0
        /\ \A i \in 1..Len(result.findings) :
               result.findings[i].rule_id = "TINY_SEGMENTS"
                   => result.findings[i].severity = "WARN" /\ result.findings[i].line_numbers = << >>

C24_Witness ==
    /\ pc = "done"
    /\ lines = <<"X0.4", "G1", "X0", "X0.5">>
    /\ move_lengths = <<40, 40, 50>>
    /\ TinyCount = 1

\* the indices of the AIR_CUT findings of the report, in the order of the report
AirCutFindings ==
    SelectSeq([i \in 1..Len(result.findings) |-> i],
              LAMBDA i : result.findings[i].rule_id = "AIR_CUT")

\* the recorded moves that are longer than 200 on a line whose text, as the
\* caller gave it, contains G1
LongG1Moves == SelectSeq(moves, LAMBDA mv : FGt(mv[2], 20000) /\ Contains(lines[mv[1]], "G1"))

\* C25: the AIR_CUT findings of the report are, in the order of the moves, one
\* INFO finding with impact 1.0 and line list [the line of the move] for every
\* recorded move that is longer than 200 and whose line, as given in the
\* input, contains the text G1.
C25_AirCut ==
    pc = "done" =>
        /\ Len(AirCutFindings) = Len(LongG1Moves)
        /\ \A j \in 1..Len(AirCutFindings) :
               LET f == result.findings[AirCutFindings[j]]
               IN /\ f.severity = "INFO"
                  /\ f.impact_seconds = 100
                  /\ j <= Len(LongG1Moves) => f.line_numbers = <<LongG1Moves[j][1]>>

\* tool selections, rapid and cutting moves on one, two and three axes, lines
\* with two motion codes, a move without a motion code
CutMoveLines == {"T1", "G0 X5", "G1 X10 Y2", "G00 G1 Z3", "G1 G0 X3 T2", "X7", "G03 Y2 Z1"}

InitCut == InitWith(Programs(CutMoveLines, MaxCutLines))
SpecCut == InitCut /\ [][Next]_vars

\* the step of the forward pass over line idx + 1
LineStep == pc = "forward" /\ pc' = "forward" /\ idx' = idx + 1

\* the tools that have a cut distance in dict d
Keys(d) == {d[i][1] : i \in 1..Len(d)}

\* C26: the distance of a move is added to the cut distance of a tool iff the
\* first motion-modal code of the line is one of G1, G01, G2, G02, G3, G03
\* and a current tool is set, and then to the current tool only; a rapid
\* move, a move without a motion code, a cutting move before any tool
\* selection and a line without a move change no cut distance.
C26_CutDistance ==
    [][LineStep =>
          \E line \in {Upper(lines[idx + 1])} :
              IF /\ \E a \in Axes : HasCoord(line, a)
                 /\ ModalMatch(line) \in {"G1", "G01", "G2", "G02", "G3", "G03"}
                 /\ current_tool' # ""
              THEN /\ Keys(cut_time') = Keys(cut_time) \cup {current_tool'}
                   /\ DictGet(cut_time', current_tool', 0)
                          = FAdd(DictGet(cut_time, current_tool', 0), move_lengths'[Len(move_lengths')])
                   /\ \A t \in Keys(cut_time) \ {current_tool'} :
                          DictGet(cut_time', t, 0) = DictGet(cut_time, t, 0)
              ELSE cut_time' = cut_time]_vars

C26_Witness ==
    /\ pc = "done"
    /\ lines = <<"G1 X10 Y2", "G1 G0 X3 T2", "G0 X5">>
    /\ move_lengths = <<1019, 700, 200>>
    /\ cut_time = <<<<"2", 700>>>>

\* C27: the position starts at (0, 0, 0); a line sets every axis it carries a
\* coordinate for to that coordinate and leaves the other axes as they are; a
\* line without a coordinate leaves the position, the moves and the retract
\* counter as they are; a line with a coordinate records exactly one move.
C27_Position ==
    /\ []((pc = "forward" /\ idx = 0) =>
              /\ position = [a \in Axes |-> 0]
              /\ moves = << >>
              /\ retract_cycles = 0)
    /\ [][LineStep =>
            \E line \in {Upper(lines[idx + 1])} :
                /\ \A a \in Axes :
                       position'[a] = IF HasCoord(line, a) THEN CoordValue(line, a) ELSE position[a]
                /\ IF \E a \in Axes : HasCoord(line, a)
                   THEN /\ Len(moves') = Len(moves) + 1
                        /\ SubSeq(moves', 1, Len(moves)) = moves
                        /\ moves'[Len(moves')][1] = idx'
                        /\ Len(move_lengths') = Len(move_lengths) + 1
                   ELSE UNCHANGED <<position, moves, move_lengths, retract_cycles>>]_vars

C27_Witness ==
    /\ pc = "done"
    /\ lines = <<"G1 X10 Y2", "T1", "G00 G1 Z3">>
    /\ position = [X |-> 1000, Y |-> 200, Z |-> 300]
    /\ Len(moves) = 2
    /\ moves[2][1] = 3

\* line idx + 1 carries a Z, an earlier line carries one, and the two differ
ZChangesAtStep ==
    \E line \in {Upper(lines[idx + 1])}, zs \in {ZValues(idx)} :
        /\ HasCoord(line, "Z")
        /\ Len(zs) > 0
        /\ CoordValue(line, "Z") # zs[Len(zs)]

\* C28: the retract counter starts at 0; a line adds exactly 0.5 to it iff
\* the line carries a Z coordinate, an earlier line carried one, and the new
\* Z differs from the Z of the most recent such line; a repeated Z, the first
\* Z-bearing line and a line without Z leave it as it is, and it never
\* decreases.
C28_RetractCounter ==
    /\ []((pc = "forward" /\ idx = 0) => retract_cycles = 0)
    /\ [][LineStep =>
            retract_cycles' = retract_cycles + (IF ZChangesAtStep THEN 50 ELSE 0)]_vars
    /\ [][retract_cycles' >= retract_cycles]_vars

C28_Witness ==
    /\ pc = "done"
    /\ lines = <<"Z10", "G1 Z5", "X1 Y1", "G0 X2 Z5", "Z10">>
    /\ retract_cycles = 100

====
